---- MODULE Spec2Model ----
(***************************************************************************)
(* Model of the two native helpers of stella-frontend:                     *)
(*   mouse_block.exe  (src/native/src/mouse_block.cpp)                     *)
(*   window_info.exe  (src/native/src/window_info.cpp)                     *)
(*                                                                         *)
(* Three programs are modelled, each with its own specification:           *)
(*   Spec / FairSpec : mouse_block.exe (hook callback, console control     *)
(*                     handler, main and its message loop)                 *)
(*   WinSpec         : window_info.exe main (resolution, report, GDI+)     *)
(*   ParseSpec       : parseExcludePidsArg on one argument                 *)
(***************************************************************************)
EXTENDS Integers, Sequences, FiniteSets

VARIABLES
    \* ---- mouse_block.exe ----
    pc,               \* position of main()
    g_hook,           \* "NULL" or "HOOK"
    g_running,        \* volatile bool g_running
    g_blockingActive, \* volatile bool g_blockingActive
    out,              \* lines written to stdout, in order
    exitCode,         \* -1 while running, else main's return value
    mainQueue,        \* message queue of the main thread
    handlerQueue,     \* WM_QUIT messages posted to console-handler threads
    last,             \* the last hook callback: its arguments and its result
    enteredLoop,      \* main evaluated the while condition at least once
    shutdownRequested,\* CtrlHandler handled a control event
    hookInstalled,    \* "unknown", or whether SetWindowsHookExW succeeded
    nEvents, nSignals, nMsgs,
    \* ---- window_info.exe ----
    wpc,              \* position of main()
    stack,            \* top-level windows, front to back
    pt,               \* the point given on the command line
    excludedPids,     \* the parsed exclusion list
    hit,              \* what WindowFromPoint returned, NULL when not called
    screenshotPath,   \* TRUE when --screenshot= was given
    gdiplusToken,     \* 0, or the token GdiplusStartup returned
    startupCalls, shutdownCalls,
    enumResult,       \* what findTopLevelWindowAtPoint returned
    hwnd,             \* main's hwnd
    output,           \* the record printed on stdout
    wExit,            \* -1 while running, else main's return value
    captured,         \* "none", "saved" or "failed"
    \* ---- parseExcludePidsArg ----
    arg,              \* the text after "--exclude-pids="
    excluded0,        \* the vector before the call
    excluded,         \* the vector after the call
    parsed

hookVars == <<pc, g_hook, g_running, g_blockingActive, out, exitCode, mainQueue,
              handlerQueue, last, enteredLoop, shutdownRequested, hookInstalled,
              nEvents, nSignals, nMsgs>>
winVars == <<wpc, stack, pt, excludedPids, hit, screenshotPath, gdiplusToken,
             startupCalls, shutdownCalls, enumResult, hwnd, output, wExit, captured>>
parseVars == <<arg, excluded0, excluded, parsed>>
vars == <<hookVars, winVars, parseVars>>

(***************************************************************************)
(* Bounds of the model.                                                    *)
(***************************************************************************)
MaxEvents == 3
MaxSignals == 1
MaxMsgs == 1
MaxWindows == 2
MaxArgLen == 4

(***************************************************************************)
(* mouse_block.exe                                                         *)
(***************************************************************************)
HC_ACTION == 0
NCodes == {HC_ACTION, -1}
WParams == {"WM_RBUTTONDOWN", "WM_RBUTTONUP", "WM_MOUSEMOVE"}
HookPoints == {<<10, 20>>, <<30, 40>>}
CtrlTypes == {"CTRL_C_EVENT", "CTRL_BREAK_EVENT", "CTRL_CLOSE_EVENT",
              "CTRL_LOGOFF_EVENT", "CTRL_SHUTDOWN_EVENT"}

Line(kind, p) == [kind |-> kind, x |-> p[1], y |-> p[2]]
NoPoint == <<0, 0>>
NoCallback == [n |-> 0, nCode |-> -1, wParam |-> "none", ctrlHeld |-> FALSE,
               pt |-> NoPoint, ret |-> "none"]

HookIdle ==
    /\ pc = "idle" /\ g_hook = "NULL" /\ g_running = TRUE
    /\ g_blockingActive = FALSE /\ out = <<>> /\ exitCode = -1
    /\ mainQueue = <<>> /\ handlerQueue = 0 /\ last = NoCallback
    /\ enteredLoop = FALSE /\ shutdownRequested = FALSE
    /\ hookInstalled = "unknown"
    /\ nEvents = 0 /\ nSignals = 0 /\ nMsgs = 0

\* the condition of line 19-24: a right-button-down with Ctrl held
StartsSession_IgnoreCtrl(nCode, wParam, ctrlHeld) ==
    nCode = HC_ACTION /\ wParam = "WM_RBUTTONDOWN"
StartsSession(nCode, wParam, ctrlHeld) ==
    nCode = HC_ACTION /\ wParam = "WM_RBUTTONDOWN" /\ ctrlHeld

\* the condition of line 32-36: a right-button-up during a blocking session
EndsSession_NeedsCtrl(nCode, wParam, ctrlHeld, active) ==
    nCode = HC_ACTION /\ wParam = "WM_RBUTTONUP" /\ active /\ ctrlHeld
EndsSession(nCode, wParam, ctrlHeld, active) ==
    nCode = HC_ACTION /\ wParam = "WM_RBUTTONUP" /\ active

\* The hook callback. A low-level hook is called on the thread that installed
\* it, from inside that thread's GetMessageW, which does not return for it.
LowLevelMouseProc(nCode, wParam, p, ctrlHeld) ==
    /\ pc = "getmsg" /\ g_hook = "HOOK" /\ nEvents < MaxEvents
    /\ nEvents' = nEvents + 1
    /\ IF StartsSession(nCode, wParam, ctrlHeld)
       THEN /\ g_blockingActive' = TRUE
            /\ out' = Append(out, Line("DOWN", p))
            /\ last' = [n |-> nEvents + 1, nCode |-> nCode, wParam |-> wParam,
                        ctrlHeld |-> ctrlHeld, pt |-> p, ret |-> "consumed"]
       ELSE IF EndsSession(nCode, wParam, ctrlHeld, g_blockingActive)
       THEN /\ g_blockingActive' = FALSE
            /\ out' = Append(out, Line("UP", p))
            /\ last' = [n |-> nEvents + 1, nCode |-> nCode, wParam |-> wParam,
                        ctrlHeld |-> ctrlHeld, pt |-> p, ret |-> "consumed"]
       ELSE /\ UNCHANGED <<g_blockingActive, out>>
            /\ last' = [n |-> nEvents + 1, nCode |-> nCode, wParam |-> wParam,
                        ctrlHeld |-> ctrlHeld, pt |-> p, ret |-> "forwarded"]
    /\ UNCHANGED <<pc, g_hook, g_running, exitCode, mainQueue, handlerQueue,
                   enteredLoop, shutdownRequested, hookInstalled, nSignals, nMsgs>>

MouseEvent ==
    \E nCode \in NCodes, wParam \in WParams, p \in HookPoints, ctrlHeld \in BOOLEAN :
        LowLevelMouseProc(nCode, wParam, p, ctrlHeld)

\* The console control handler. The system runs it on a new thread of the
\* process; PostQuitMessage posts WM_QUIT to the queue of the calling thread.
CtrlHandler(ctrlType) ==
    /\ pc \notin {"idle", "start", "done"} /\ nSignals < MaxSignals
    /\ nSignals' = nSignals + 1
    /\ IF ctrlType \in {"CTRL_C_EVENT", "CTRL_CLOSE_EVENT",
                        "CTRL_BREAK_EVENT", "CTRL_SHUTDOWN_EVENT"}
       THEN /\ g_running' = FALSE
            /\ handlerQueue' = handlerQueue + 1
            /\ shutdownRequested' = TRUE
       ELSE UNCHANGED <<g_running, handlerQueue, shutdownRequested>>
    /\ UNCHANGED <<pc, g_hook, g_blockingActive, out, exitCode, mainQueue, last,
                   enteredLoop, hookInstalled, nEvents, nMsgs>>

ControlSignal == \E ctrlType \in CtrlTypes : CtrlHandler(ctrlType)

\* Another thread or process posts a message to the main thread's queue.
ThreadMessageArrives ==
    /\ pc \notin {"idle", "done"} /\ nMsgs < MaxMsgs
    /\ nMsgs' = nMsgs + 1
    /\ \E m \in {"WM_QUIT", "WM_OTHER"} : mainQueue' = Append(mainQueue, m)
    /\ UNCHANGED <<pc, g_hook, g_running, g_blockingActive, out, exitCode,
                   handlerQueue, last, enteredLoop, shutdownRequested,
                   hookInstalled, nEvents, nSignals>>

\* main, lines 64-66: setvbuf, SetConsoleCtrlHandler
MainSetup ==
    /\ pc = "start"
    /\ pc' = "install"
    /\ UNCHANGED <<g_hook, g_running, g_blockingActive, out, exitCode, mainQueue,
                   handlerQueue, last, enteredLoop, shutdownRequested,
                   hookInstalled, nEvents, nSignals, nMsgs>>

\* main, lines 69-74: SetWindowsHookExW succeeds or fails
MainInstallHook_NoReturn ==
    /\ pc = "install"
    /\ \E h \in {"HOOK", "NULL"} :
          /\ g_hook' = h
          /\ hookInstalled' = IF h = "NULL" THEN "no" ELSE "yes"
    /\ pc' = "ready"
    /\ UNCHANGED <<g_running, g_blockingActive, out, exitCode, mainQueue,
                   handlerQueue, last, enteredLoop, shutdownRequested,
                   nEvents, nSignals, nMsgs>>
MainInstallHook ==
    /\ pc = "install"
    /\ \E h \in {"HOOK", "NULL"} :
          /\ g_hook' = h
          /\ hookInstalled' = IF h = "NULL" THEN "no" ELSE "yes"
          /\ IF h = "NULL"
             THEN pc' = "done" /\ exitCode' = 1
             ELSE pc' = "ready" /\ UNCHANGED exitCode
    /\ UNCHANGED <<g_running, g_blockingActive, out, mainQueue,
                   handlerQueue, last, enteredLoop, shutdownRequested,
                   nEvents, nSignals, nMsgs>>

\* main, lines 77-78
MainReady ==
    /\ pc = "ready"
    /\ out' = Append(out, Line("READY", NoPoint))
    /\ pc' = "loop"
    /\ UNCHANGED <<g_hook, g_running, g_blockingActive, exitCode, mainQueue,
                   handlerQueue, last, enteredLoop, shutdownRequested,
                   hookInstalled, nEvents, nSignals, nMsgs>>

\* main, line 82, left operand of &&
MainLoopCheck ==
    /\ pc = "loop"
    /\ enteredLoop' = TRUE
    /\ pc' = IF g_running THEN "getmsg" ELSE "unhook"
    /\ UNCHANGED <<g_hook, g_running, g_blockingActive, out, exitCode, mainQueue,
                   handlerQueue, last, shutdownRequested, hookInstalled,
                   nEvents, nSignals, nMsgs>>

\* main, line 82, GetMessageW: blocks until the main thread's queue holds a
\* message; returns 0 for WM_QUIT
MainGetMessage ==
    /\ pc = "getmsg"
    /\ mainQueue # <<>>
    /\ mainQueue' = Tail(mainQueue)
    /\ pc' = IF Head(mainQueue) = "WM_QUIT" THEN "unhook" ELSE "dispatch"
    /\ UNCHANGED <<g_hook, g_running, g_blockingActive, out, exitCode,
                   handlerQueue, last, enteredLoop, shutdownRequested,
                   hookInstalled, nEvents, nSignals, nMsgs>>

\* main, lines 84-85
MainDispatch ==
    /\ pc = "dispatch"
    /\ pc' = "loop"
    /\ UNCHANGED <<g_hook, g_running, g_blockingActive, out, exitCode, mainQueue,
                   handlerQueue, last, enteredLoop, shutdownRequested,
                   hookInstalled, nEvents, nSignals, nMsgs>>

\* main, lines 88-89
MainUnhook ==
    /\ pc = "unhook"
    /\ g_hook' = "NULL"
    /\ pc' = "exit"
    /\ UNCHANGED <<g_running, g_blockingActive, out, exitCode, mainQueue,
                   handlerQueue, last, enteredLoop, shutdownRequested,
                   hookInstalled, nEvents, nSignals, nMsgs>>

\* main, lines 91-94
MainExit ==
    /\ pc = "exit"
    /\ out' = Append(out, Line("EXIT", NoPoint))
    /\ exitCode' = 0
    /\ pc' = "done"
    /\ UNCHANGED <<g_hook, g_running, g_blockingActive, mainQueue,
                   handlerQueue, last, enteredLoop, shutdownRequested,
                   hookInstalled, nEvents, nSignals, nMsgs>>

MainThread ==
    \/ MainSetup \/ MainInstallHook \/ MainReady \/ MainLoopCheck
    \/ MainGetMessage \/ MainDispatch \/ MainUnhook \/ MainExit

(***************************************************************************)
(* window_info.exe                                                         *)
(***************************************************************************)
\* Window handles: <<"top", i>> is the i-th top-level window front to back,
\* <<"overlay", pid>> a top-level window of process pid that the z-order walk
\* does not enumerate, <<"ovchild", pid>> a child window of such a window.
NULL == <<"null", 0>>
Pids == {1, 2}
ExclusionLists == {<<>>, <<2>>, <<1, 2>>}
WinPoints == {<<2, 1>>, <<1, 2>>, <<3, 1>>, <<2, 0>>}
RectA == [left |-> 1, top |-> 0, right |-> 3, bottom |-> 2]
RectB == [left |-> 2, top |-> 1, right |-> 4, bottom |-> 3]
RectDegenerate == [left |-> 2, top |-> 1, right |-> 0, bottom |-> 1]
ZeroRect == [left |-> 0, top |-> 0, right |-> 0, bottom |-> 0]
\* what GetWindowRect gives for a window: success and the rectangle
Geometries == {[ok |-> TRUE, rect |-> RectA], [ok |-> TRUE, rect |-> RectB],
               [ok |-> TRUE, rect |-> RectDegenerate],
               [ok |-> FALSE, rect |-> ZeroRect]}
\* a hidden window is skipped whatever its rectangle: one geometry stands for all
Windows == [visible : {TRUE}, geom : Geometries, pid : Pids]
           \cup [visible : {FALSE}, geom : {[ok |-> TRUE, rect |-> RectA]}, pid : Pids]
Stacks == UNION {[1..n -> Windows] : n \in 0..MaxWindows}

WinIdle ==
    /\ wpc = "idle" /\ stack = <<>> /\ pt = <<0, 0>> /\ excludedPids = <<>>
    /\ hit = NULL /\ screenshotPath = FALSE /\ gdiplusToken = 0
    /\ startupCalls = 0 /\ shutdownCalls = 0 /\ enumResult = NULL
    /\ hwnd = NULL /\ output = <<>> /\ wExit = -1 /\ captured = "none"

\* isPidExcluded, lines 36-46
isPidExcluded(pid, excl) ==
    \E k \in 1..Len(excl) : excl[k] = pid

\* the platform calls of main and findTopLevelWindowAtPoint
IsWindowVisible(h) == IF h[1] = "top" THEN stack[h[2]].visible ELSE TRUE
GetWindowRect(h) ==
    IF h[1] = "top" THEN stack[h[2]].geom
    ELSE [ok |-> TRUE, rect |-> [left |-> pt[1], top |-> pt[2],
                                 right |-> pt[1] + 1, bottom |-> pt[2] + 1]]
GetWindowThreadProcessId(h) == IF h[1] = "top" THEN stack[h[2]].pid ELSE h[2]
GetAncestor(h) == IF h[1] = "ovchild" THEN <<"overlay", h[2]>> ELSE h

\* line 101
RectIsDegenerate(rect) == rect.right <= rect.left \/ rect.bottom <= rect.top

\* line 105
PointOutside_OffByOne(p, rect) ==
    p[1] < rect.left \/ p[1] > rect.right \/ p[2] < rect.top \/ p[2] > rect.bottom
PointOutside(p, rect) ==
    p[1] < rect.left \/ p[1] >= rect.right \/ p[2] < rect.top \/ p[2] >= rect.bottom

\* findTopLevelWindowAtPoint, lines 87-121: the walk from the i-th window on
RECURSIVE WalkFrom(_, _, _)
WalkFrom(i, p, excl) ==
    IF i > Len(stack) THEN NULL
    ELSE LET h == <<"top", i>>
             g == GetWindowRect(h)
         IN  IF ~IsWindowVisible(h) THEN WalkFrom(i + 1, p, excl)
             ELSE IF ~g.ok THEN WalkFrom(i + 1, p, excl)
             ELSE IF RectIsDegenerate(g.rect) THEN WalkFrom(i + 1, p, excl)
             ELSE IF PointOutside(p, g.rect) THEN WalkFrom(i + 1, p, excl)
             ELSE IF isPidExcluded(GetWindowThreadProcessId(h), excl)
                  THEN WalkFrom(i + 1, p, excl)
             ELSE h

findTopLevelWindowAtPoint(p, excl) == WalkFrom(1, p, excl)

\* WindowFromPoint: no window, a visible enumerated window at the point, or a
\* window (or a child of one) that the walk does not enumerate
WindowFromPoint(p) ==
    {NULL}
    \cup {<<"top", i>> : i \in {j \in 1..Len(stack) :
               /\ stack[j].visible /\ stack[j].geom.ok
               /\ ~PointOutside(p, stack[j].geom.rect)}}
    \cup {<<"overlay", q>> : q \in Pids} \cup {<<"ovchild", q>> : q \in Pids}

\* lines 279-286: the bounds object of the record
Bounds_OffByOne(rect) ==
    [x |-> rect.left, y |-> rect.top,
     width |-> rect.right - rect.left - 1, height |-> rect.bottom - rect.top - 1]
Bounds(rect) ==
    [x |-> rect.left, y |-> rect.top,
     width |-> rect.right - rect.left, height |-> rect.bottom - rect.top]

\* captureWindowToFile, lines 144-181: fails for a degenerate rectangle, else
\* saves or fails as the platform decides
captureWindowToFile(h) ==
    LET g == GetWindowRect(h)
    IN  IF g.rect.right - g.rect.left <= 0 \/ g.rect.bottom - g.rect.top <= 0
        THEN {"failed"} ELSE {"saved", "failed"}

\* main, lines 185-215: the usage check, the arguments, GdiplusStartup
WinStart ==
    /\ wpc = "start"
    /\ \E argsOk \in BOOLEAN, shot \in BOOLEAN, token \in {0, 1} :
          IF ~argsOk
          THEN /\ wExit' = 1 /\ wpc' = "done"
               /\ UNCHANGED <<screenshotPath, gdiplusToken, startupCalls>>
          ELSE /\ screenshotPath' = shot
               /\ IF shot
                  THEN gdiplusToken' = token /\ startupCalls' = startupCalls + 1
                  ELSE token = 0 /\ UNCHANGED <<gdiplusToken, startupCalls>>
               /\ wpc' = "resolve"
               /\ UNCHANGED wExit
    /\ UNCHANGED <<stack, pt, excludedPids, hit, shutdownCalls, enumResult,
                   hwnd, output, captured>>

\* main, lines 228-233: the exclusion check of the fallback
FallbackAccepts_NoCheck(root, excl) == TRUE
FallbackAccepts(root, excl) == ~isPidExcluded(GetWindowThreadProcessId(root), excl)

\* main, lines 217-235: the walk, then the hit-test fallback
WinResolve ==
    /\ wpc = "resolve"
    /\ LET found == findTopLevelWindowAtPoint(pt, excludedPids) IN
       /\ enumResult' = found
       /\ IF found # NULL
          THEN hwnd' = found /\ UNCHANGED hit
          ELSE \E w \in WindowFromPoint(pt) :
                  /\ hit' = w
                  /\ hwnd' = IF w = NULL THEN NULL
                             ELSE IF FallbackAccepts(GetAncestor(w), excludedPids)
                                  THEN GetAncestor(w) ELSE NULL
    /\ wpc' = "resolved"
    /\ UNCHANGED <<stack, pt, excludedPids, screenshotPath, gdiplusToken,
                   startupCalls, shutdownCalls, output, wExit, captured>>

\* main, lines 236-241
WinNoWindow ==
    /\ wpc = "resolved" /\ hwnd = NULL
    /\ output' = [kind |-> "error"]
    /\ shutdownCalls' = IF gdiplusToken # 0 THEN shutdownCalls + 1 ELSE shutdownCalls
    /\ wExit' = 0
    /\ wpc' = "done"
    /\ UNCHANGED <<stack, pt, excludedPids, hit, screenshotPath, gdiplusToken,
                   startupCalls, enumResult, hwnd, captured>>

\* main, lines 243-286
WinReport ==
    /\ wpc = "resolved" /\ hwnd # NULL
    /\ LET root == GetAncestor(hwnd) IN
       /\ hwnd' = root
       /\ output' = [kind |-> "window", pid |-> GetWindowThreadProcessId(root),
                     bounds |-> Bounds(GetWindowRect(root).rect)]
    /\ wpc' = "capture"
    /\ UNCHANGED <<stack, pt, excludedPids, hit, screenshotPath, gdiplusToken,
                   startupCalls, shutdownCalls, enumResult, wExit, captured>>

\* main, lines 288-300
WinCapture ==
    /\ wpc = "capture"
    /\ IF screenshotPath
       THEN /\ \E r \in captureWindowToFile(hwnd) : captured' = r
            /\ shutdownCalls' = shutdownCalls + 1
       ELSE UNCHANGED <<captured, shutdownCalls>>
    /\ wExit' = 0
    /\ wpc' = "done"
    /\ UNCHANGED <<stack, pt, excludedPids, hit, screenshotPath, gdiplusToken,
                   startupCalls, enumResult, hwnd, output>>

(***************************************************************************)
(* parseExcludePidsArg                                                     *)
(***************************************************************************)
\* A C string is a sequence of characters; position Len(s) + 1 is its NUL.
Digits == {"0", "1", "2"}
Alphabet == Digits \cup {",", " ", "a", "-"}
Strings == UNION {[1..n -> Alphabet] : n \in 0..MaxArgLen}
Prefixes == {"--exclude-pids=", "--screenshot="}

ParseIdle ==
    /\ arg = [prefix |-> "", text |-> <<>>]
    /\ excluded0 = <<>> /\ excluded = <<>> /\ parsed = FALSE

DigitValue(c) == CASE c = "0" -> 0 [] c = "1" -> 1 [] c = "2" -> 2

\* the first position from p on whose character is not in cs
RECURSIVE SkipWhileIn(_, _, _)
SkipWhileIn(s, p, cs) ==
    IF p <= Len(s) /\ s[p] \in cs THEN SkipWhileIn(s, p + 1, cs) ELSE p

\* lines 80-83: the first position from p on that holds a comma, or the NUL
RECURSIVE SkipToComma(_, _)
SkipToComma(s, p) ==
    IF p <= Len(s) /\ s[p] # "," THEN SkipToComma(s, p + 1) ELSE p

\* An unsigned long (32 bits on the Windows ABI the helper is built for) is
\* held as the two's-complement integer of the same bit pattern: -v stands for
\* 2^32 - v. Unsigned negation is then integer negation, and the unsigned test
\* "pid > 0" is "pid # 0".
IsPositiveULong(v) == v # 0

\* the digits of strtoul: the value so far (a digit string of at most MaxArgLen
\* digits stays far below the saturation at ULONG_MAX)
RECURSIVE ReadDigits(_, _, _)
ReadDigits(s, p, acc) ==
    IF p <= Len(s) /\ s[p] \in Digits
    THEN ReadDigits(s, p + 1, acc * 10 + DigitValue(s[p]))
    ELSE [value |-> acc, end |-> p]

\* strtoul(p, &end, 10), line 70: white space, an optional sign, digits; with no
\* digit the value is 0 and end is p; a minus sign negates in unsigned long
strtoul(s, p) ==
    LET q == SkipWhileIn(s, p, {" "})
        neg == q <= Len(s) /\ s[q] = "-"
        d == IF neg THEN q + 1 ELSE q
        r == ReadDigits(s, d, 0)
    IN  IF r.end = d THEN [value |-> 0, end |-> p]
        ELSE [value |-> IF neg THEN 0 - r.value ELSE r.value, end |-> r.end]

\* lines 58-84: the loop, from position p with the vector excl
RECURSIVE ParseLoop(_, _, _)
ParseLoop(s, p, excl) ==
    IF p > Len(s) THEN excl
    ELSE LET q == SkipWhileIn(s, p, {",", " "}) IN
         IF q > Len(s) THEN excl
         ELSE LET r == strtoul(s, q) IN
              IF r.end = q THEN excl
              ELSE ParseLoop(s, SkipToComma(s, r.end),
                             IF IsPositiveULong(r.value) THEN Append(excl, r.value)
                             ELSE excl)

\* parseExcludePidsArg, lines 48-85
parseExcludePidsArg(a, excl) ==
    IF a.prefix # "--exclude-pids=" THEN excl ELSE ParseLoop(a.text, 1, excl)

ParseArg ==
    /\ ~parsed
    /\ excluded' = parseExcludePidsArg(arg, excluded0)
    /\ parsed' = TRUE
    /\ UNCHANGED <<arg, excluded0>>

\* mouse_block.exe: the state when main is entered (lines 9-11)
Init ==
    /\ pc = "start" /\ g_hook = "NULL" /\ g_running = TRUE
    /\ g_blockingActive = FALSE /\ out = <<>> /\ exitCode = -1
    /\ mainQueue = <<>> /\ handlerQueue = 0 /\ last = NoCallback
    /\ enteredLoop = FALSE /\ shutdownRequested = FALSE
    /\ hookInstalled = "unknown"
    /\ nEvents = 0 /\ nSignals = 0 /\ nMsgs = 0
    /\ WinIdle /\ ParseIdle

Next ==
    \/ MainSetup /\ UNCHANGED <<winVars, parseVars>>
    \/ MainInstallHook /\ UNCHANGED <<winVars, parseVars>>
    \/ MainReady /\ UNCHANGED <<winVars, parseVars>>
    \/ MainLoopCheck /\ UNCHANGED <<winVars, parseVars>>
    \/ MainGetMessage /\ UNCHANGED <<winVars, parseVars>>
    \/ MainDispatch /\ UNCHANGED <<winVars, parseVars>>
    \/ MainUnhook /\ UNCHANGED <<winVars, parseVars>>
    \/ MainExit /\ UNCHANGED <<winVars, parseVars>>
    \/ MouseEvent /\ UNCHANGED <<winVars, parseVars>>
    \/ ControlSignal /\ UNCHANGED <<winVars, parseVars>>
    \/ ThreadMessageArrives /\ UNCHANGED <<winVars, parseVars>>

Spec == Init /\ [][Next]_vars

\* The main thread is scheduled fairly: a step of main that stays possible is
\* eventually taken. Input events, control signals and posted messages are the
\* environment's and are not forced.
FairSpec == Init /\ [][Next]_vars /\ WF_vars(MainThread /\ UNCHANGED <<winVars, parseVars>>)

\* window_info.exe: a desktop, a point and an exclusion list, at main's entry
WinInit ==
    /\ HookIdle /\ ParseIdle
    /\ wpc = "start"
    /\ stack \in Stacks /\ pt \in WinPoints /\ excludedPids \in ExclusionLists
    /\ hit = NULL /\ screenshotPath = FALSE /\ gdiplusToken = 0
    /\ startupCalls = 0 /\ shutdownCalls = 0 /\ enumResult = NULL
    /\ hwnd = NULL /\ output = <<>> /\ wExit = -1 /\ captured = "none"

WinNext ==
    \/ WinStart /\ UNCHANGED <<hookVars, parseVars>>
    \/ WinResolve /\ UNCHANGED <<hookVars, parseVars>>
    \/ WinNoWindow /\ UNCHANGED <<hookVars, parseVars>>
    \/ WinReport /\ UNCHANGED <<hookVars, parseVars>>
    \/ WinCapture /\ UNCHANGED <<hookVars, parseVars>>

WinSpec == WinInit /\ [][WinNext]_vars

\* parseExcludePidsArg: an argument and the vector left by earlier arguments
ParseInit ==
    /\ HookIdle /\ WinIdle
    /\ arg \in [prefix : Prefixes, text : Strings]
    /\ excluded0 \in {<<>>, <<7>>}
    /\ excluded = excluded0
    /\ parsed = FALSE

ParseNext == ParseArg /\ UNCHANGED <<hookVars, winVars>>

ParseSpec == ParseInit /\ [][ParseNext]_vars

(***************************************************************************)
(* Claims about mouse_block.exe                                            *)
(***************************************************************************)
CallbackRan == last'.n # last.n
DownEmitted == Len(out') = Len(out) + 1 /\ out'[Len(out')].kind = "DOWN"
UpEmitted == Len(out') = Len(out) + 1 /\ out'[Len(out')].kind = "UP"
Count(kind) == Cardinality({i \in 1..Len(out) : out[i].kind = kind})

\* C1 (as claimed): in every step, a DOWN line is emitted if and only if the
\* session goes from Inactive to Active; in particular no DOWN is emitted
\* while the session is already Active, so two DOWN lines always have an UP
\* line between them.
C1_DownIffSessionStarts ==
    [][DownEmitted <=> (~g_blockingActive /\ g_blockingActive')]_vars

\* C2 (as claimed): once a shutdown was requested of the running service
\* (g_running cleared, quit request posted), main eventually has left its
\* loop, removed the hook, printed EXIT and returned 0.
C2_ShutdownReachesExit ==
    (shutdownRequested /\ g_hook = "HOOK")
        ~> (pc = "done" /\ g_hook = "NULL" /\ exitCode = 0
            /\ out # <<>> /\ out[Len(out)].kind = "EXIT")

\* C3: READY is the first line and appears only there, so it precedes every
\* DOWN and UP and is printed after the hook was installed and before the loop
\* is entered; EXIT appears only as the last line, printed once main is done
\* and the hook is removed. When main has returned after a successful
\* installation the output holds exactly one READY and ends with exactly one
\* EXIT and the exit code is 0; after a failed installation the exit code is 1,
\* the loop was never entered and nothing was written to stdout.
C3_ReadyExitProtocol ==
    /\ \A i \in 1..Len(out) : (out[i].kind = "READY") <=> (i = 1)
    /\ \A i \in 1..Len(out) :
          out[i].kind = "EXIT" => (i = Len(out) /\ pc = "done" /\ g_hook = "NULL")
    /\ out # <<>> => hookInstalled = "yes"
    /\ enteredLoop => (out # <<>> /\ hookInstalled = "yes")
    /\ pc # "done" => exitCode = -1
    /\ (pc = "done" /\ hookInstalled = "yes") =>
          /\ exitCode = 0 /\ g_hook = "NULL" /\ enteredLoop
          /\ Count("READY") = 1 /\ Count("EXIT") = 1
          /\ out[1].kind = "READY" /\ out[Len(out)].kind = "EXIT"
    /\ hookInstalled = "no" =>
          /\ pc = "done" /\ exitCode = 1 /\ ~enteredLoop /\ out = <<>>

\* C3 witness: a complete run with a DOWN and an UP between READY and EXIT.
C3_Witness ==
    /\ pc = "done" /\ exitCode = 0 /\ Len(out) >= 4
    /\ Count("DOWN") >= 1 /\ Count("UP") >= 1

\* C8: a callback for an event that neither is a right-button-down with Ctrl
\* held nor a right-button-up during an active session is forwarded, leaves
\* g_blockingActive as it was and writes nothing; and a callback consumes its
\* event exactly when it writes a DOWN or an UP line.
C8_PassThroughHasNoEffect ==
    [][CallbackRan =>
        LET e == last' IN
        /\ e.ret \in {"consumed", "forwarded"}
        /\ (/\ ~(e.nCode = HC_ACTION /\ e.wParam = "WM_RBUTTONDOWN" /\ e.ctrlHeld)
            /\ ~(e.nCode = HC_ACTION /\ e.wParam = "WM_RBUTTONUP" /\ g_blockingActive))
               => (/\ e.ret = "forwarded"
                   /\ g_blockingActive' = g_blockingActive
                   /\ out' = out)
        /\ (e.ret = "consumed") <=> (DownEmitted \/ UpEmitted)]_vars

\* C8 witness: a right-button-down without Ctrl was forwarded while a session
\* was active.
C8_Witness ==
    /\ last.nCode = HC_ACTION /\ last.wParam = "WM_RBUTTONDOWN" /\ ~last.ctrlHeld
    /\ last.ret = "forwarded" /\ g_blockingActive

\* C9: an UP line is written only by a callback that found the session Active;
\* the session becomes Active only by a callback for a right-button-down with
\* Ctrl held; and a right-button-up found while Active ends the session, writes
\* UP with the point of that event and is consumed, whatever the state of Ctrl.
C9_UpOnlyWhileActive ==
    [][/\ UpEmitted => (CallbackRan /\ g_blockingActive)
       /\ (~g_blockingActive /\ g_blockingActive') =>
             (/\ CallbackRan
              /\ last'.nCode = HC_ACTION
              /\ last'.wParam = "WM_RBUTTONDOWN" /\ last'.ctrlHeld)
       /\ (/\ CallbackRan /\ g_blockingActive
           /\ last'.nCode = HC_ACTION /\ last'.wParam = "WM_RBUTTONUP") =>
             (/\ ~g_blockingActive'
              /\ out' = Append(out, Line("UP", last'.pt))
              /\ last'.ret = "consumed")]_vars

\* C9 witness: a session was ended by a right-button-up with Ctrl released.
C9_Witness ==
    /\ last.nCode = HC_ACTION /\ last.wParam = "WM_RBUTTONUP" /\ ~last.ctrlHeld
    /\ last.ret = "consumed" /\ ~g_blockingActive
    /\ out[Len(out)] = Line("UP", last.pt)

(***************************************************************************)
(* Claims about window_info.exe                                            *)
(***************************************************************************)
Range(f) == {f[k] : k \in DOMAIN f}
Reported == output # <<>>
\* the i-th window is visible, has a rectangle of positive width and height
\* that contains the point, and is not owned by an excluded process
Qualifies(i) ==
    /\ stack[i].visible /\ stack[i].geom.ok
    /\ stack[i].geom.rect.right - stack[i].geom.rect.left > 0
    /\ stack[i].geom.rect.bottom - stack[i].geom.rect.top > 0
    /\ stack[i].geom.rect.left <= pt[1] /\ pt[1] < stack[i].geom.rect.right
    /\ stack[i].geom.rect.top <= pt[2] /\ pt[2] < stack[i].geom.rect.bottom
    /\ stack[i].pid \notin Range(excludedPids)
\* the i-th window is visible and unexcluded and the point is strictly inside it
KnownAt(i) ==
    /\ stack[i].visible /\ stack[i].geom.ok
    /\ stack[i].geom.rect.left < pt[1] /\ pt[1] < stack[i].geom.rect.right
    /\ stack[i].geom.rect.top < pt[2] /\ pt[2] < stack[i].geom.rect.bottom
    /\ stack[i].pid \notin Range(excludedPids)
BoundsContain(b, p) ==
    /\ b.x <= p[1] /\ p[1] < b.x + b.width
    /\ b.y <= p[2] /\ p[2] < b.y + b.height
\* every window at the point, enumerated or hit-tested, has an excluded owner
AllCandidatesExcluded ==
    /\ \A i \in 1..Len(stack) :
          (/\ stack[i].visible /\ stack[i].geom.ok
           /\ stack[i].geom.rect.left <= pt[1] /\ pt[1] < stack[i].geom.rect.right
           /\ stack[i].geom.rect.top <= pt[2] /\ pt[2] < stack[i].geom.rect.bottom)
             => stack[i].pid \in Range(excludedPids)
    /\ hit[1] \in {"overlay", "ovchild"} => hit[2] \in Range(excludedPids)

\* C4: the window reported is never owned by a process of the exclusion list,
\* whether the walk or the hit-test fallback found it, and when every window at
\* the point is owned by an excluded process the record is the no-window error.
C4_ExclusionIsAbsolute ==
    /\ hwnd # NULL => GetWindowThreadProcessId(GetAncestor(hwnd)) \notin Range(excludedPids)
    /\ enumResult # NULL => stack[enumResult[2]].pid \notin Range(excludedPids)
    /\ Reported =>
          /\ output.kind = "window" => output.pid \notin Range(excludedPids)
          /\ AllCandidatesExcluded => output.kind = "error"

\* C4 witness: the walk skipped an excluded window at the point, the hit test
\* then returned a window of an excluded process, and the error was reported.
C4_Witness ==
    /\ Reported /\ output.kind = "error"
    /\ hit[1] \in {"overlay", "ovchild"}
    /\ \E i \in 1..Len(stack) :
          /\ stack[i].visible /\ stack[i].geom.ok
          /\ ~PointOutside(pt, stack[i].geom.rect)
          /\ stack[i].pid \in Range(excludedPids)

\* C5: once the walk has run, its result is the first window front to back that
\* is visible, has positive width and height, contains the point and is not
\* excluded, and is NULL when there is none; a window of width <= 0 or
\* height <= 0 is never its result.
C5_FirstQualifyingWindow ==
    wpc \in {"resolved", "capture", "done"} /\ wExit # 1 =>
        /\ (\E i \in 1..Len(stack) : Qualifies(i)) =>
              /\ enumResult[1] = "top"
              /\ Qualifies(enumResult[2])
              /\ \A j \in 1..(enumResult[2] - 1) : ~Qualifies(j)
        /\ (\A i \in 1..Len(stack) : ~Qualifies(i)) => enumResult = NULL
        /\ enumResult # NULL =>
              LET r == stack[enumResult[2]].geom.rect
              IN  r.right - r.left > 0 /\ r.bottom - r.top > 0

\* C5 witness: two overlapping visible unexcluded windows at the point, the
\* front one selected.
C5_Witness ==
    /\ wpc = "done" /\ Len(stack) >= 2
    /\ Qualifies(1) /\ Qualifies(2) /\ stack[1].pid # stack[2].pid
    /\ enumResult = <<"top", 1>>

\* C6 (as claimed): whenever the point is strictly inside a visible, unexcluded
\* window, the record holds that window's own pid and bounds that contain the
\* point.
C6_RoundTripAnyKnownWindow ==
    Reported =>
        \A i \in 1..Len(stack) :
            KnownAt(i) => (/\ output.kind = "window"
                           /\ output.pid = stack[i].pid
                           /\ BoundsContain(output.bounds, pt))

\* C6 (amended): whenever the point is strictly inside a visible, unexcluded
\* window, the record is a window record whose bounds contain the point and
\* whose pid is that of the front-most visible, unexcluded window containing
\* the point; it is that window's own pid when no such window is in front of it.
C6_RoundTripFrontMost ==
    Reported =>
        \A i \in 1..Len(stack) :
            KnownAt(i) =>
                /\ output.kind = "window"
                /\ BoundsContain(output.bounds, pt)
                /\ \E k \in 1..i :
                      /\ Qualifies(k) /\ \A j \in 1..(k - 1) : ~Qualifies(j)
                      /\ output.pid = stack[k].pid
                      /\ output.bounds = [x |-> stack[k].geom.rect.left,
                                          y |-> stack[k].geom.rect.top,
                                          width |-> stack[k].geom.rect.right
                                                    - stack[k].geom.rect.left,
                                          height |-> stack[k].geom.rect.bottom
                                                     - stack[k].geom.rect.top]
                /\ (\A j \in 1..(i - 1) : ~Qualifies(j)) => output.pid = stack[i].pid

\* C6 witness: the point is strictly inside the second window, the first does
\* not qualify, and the second window's pid was reported.
C6_Witness ==
    /\ wpc = "done" /\ Reported /\ Len(stack) >= 2
    /\ KnownAt(2) /\ ~Qualifies(1) /\ stack[1].visible
    /\ output.kind = "window" /\ output.pid = stack[2].pid
    /\ stack[1].pid # stack[2].pid

\* C10 (as claimed): when main has returned, GdiplusStartup was called only if
\* --screenshot was given, and GdiplusShutdown was called exactly once if the
\* startup succeeded and not at all if it did not.
C10_StartupShutdownPaired ==
    wpc = "done" =>
        /\ startupCalls = (IF screenshotPath THEN 1 ELSE 0)
        /\ shutdownCalls = (IF gdiplusToken # 0 THEN 1 ELSE 0)

(***************************************************************************)
(* Claims about parseExcludePidsArg                                        *)
(***************************************************************************)
\* the first position from p on that holds a comma or a space, or the NUL
RECURSIVE TokenEnd(_, _)
TokenEnd(s, p) ==
    IF p <= Len(s) /\ s[p] \notin {",", " "} THEN TokenEnd(s, p + 1) ELSE p

\* the leading digits of the token at p, as a number
RECURSIVE LeadingNumber(_, _, _)
LeadingNumber(s, p, acc) ==
    IF p <= Len(s) /\ s[p] \in Digits
    THEN LeadingNumber(s, p + 1, acc * 10 + DigitValue(s[p]))
    ELSE acc

\* the pids the documented rule accepts: tokens are separated by commas or
\* spaces; up to the first token without a leading digit, each token's number is
\* accepted when it is positive
RECURSIVE DocumentedPids(_, _)
DocumentedPids(s, p) ==
    LET q == SkipWhileIn(s, p, {",", " "}) IN
    IF q > Len(s) \/ s[q] \notin Digits THEN {}
    ELSE LET v == LeadingNumber(s, q, 0)
         IN  (IF v > 0 THEN {v} ELSE {}) \cup DocumentedPids(s, TokenEnd(s, q))

\* C7 (as claimed): after the call on "--exclude-pids=<list>" the vector holds
\* the earlier entries followed by exactly the positive numbers of the tokens,
\* comma- or space-separated, that precede the first token without a leading
\* digit.
C7_DocumentedParse ==
    (parsed /\ arg.prefix = "--exclude-pids=") =>
        /\ Len(excluded) >= Len(excluded0)
        /\ SubSeq(excluded, 1, Len(excluded0)) = excluded0
        /\ Range(excluded) = Range(excluded0) \cup DocumentedPids(arg.text, 1)

====
